---- MODULE Spec2Model ----
(***************************************************************************)
(* Model of CompanyZ6 (src/groupn.py): greedy insertion scheduling with    *)
(* multi-start search before the auction and LNS repair after it.          *)
(*                                                                         *)
(* The Schedule, Vessel and distance collaborators come from the MABLE     *)
(* library.  They are modelled here by a small concrete instance: ports on *)
(* a line, unit speed, a loading time equal to the cargo amount, a vessel  *)
(* capacity and one time window per trade.                                 *)
(***************************************************************************)
EXTENDS Integers, Sequences, FiniteSets, TLC

\* ------------------------------------------------------------------ bounds
MaxTrades == 3      \* longest trade list handed to inform() / receive()
NumVessels == 2     \* size of the fleet
MaxShuffles == 2    \* largest value of the class attribute MAX_SHUFFLES explored
MaxCalls == 1       \* number of inform() / receive() calls in a run
MaxHarshTrades == 4 \* longest trade list handed to HarshCompany.inform()
MaxCountedTrades == 52  \* largest trade count handed to _adaptive_shuffle_count alone
MaxClassShuffles == 8   \* largest MAX_SHUFFLES handed to _adaptive_shuffle_count alone

\* ------------------------------------------------------- program constants
LNS_ITERATIONS == 10
LNS_REMOVALS == 2
ScoreWeight == 1000
ShippedMaxShuffles == 1

LNS_ENABLED == TRUE

\* HarshCompany (src/harsh_agent/harsh_company.py)
MAX_BIDS_PER_AUCTION == 3
MIN_WINDOW_LENGTH == 360
MAX_TRADE_DISTANCE == 60000
NUM_STARTS == 4

\* --------------------------------------------------------- the environment
\* The trades offered at the auctions, and a trade won at an earlier auction.
Trades == {"A", "B", "C", "E"}
EarlierTrade == "D"
FarPort == 1500
VeryFarPort == 70000
Ports == {0, 1, 3, FarPort, VeryFarPort}
\* The stream of trades the auctions of a HarshCompany run are cut from.
HarshStream == <<"L", "A", "B", "G", "H", "I">>
HomePort == 0

Vessels == 1..NumVessels
\* self._fleet: the vessels in their fixed iteration order
Fleet == [i \in 1..NumVessels |-> i]

\* Trade attributes (Trade is an immutable record of the environment).
origin_port(t) ==
    CASE t = "A" -> 0 [] t = "B" -> 0 [] t = "C" -> 1 [] t = "D" -> 0
      [] t = "G" -> 0 [] t = "H" -> 1 [] t = "I" -> 0 [] t = "L" -> 0
      [] OTHER -> 0
destination_port(t) ==
    CASE t = "A" -> 1 [] t = "B" -> FarPort [] t = "C" -> 3 [] t = "D" -> 1
      [] t = "G" -> 1 [] t = "H" -> 3 [] t = "I" -> 3 [] t = "L" -> VeryFarPort
      [] OTHER -> 3
amount(t) ==
    CASE t = "A" -> 1 [] t = "B" -> 2 [] t = "C" -> 4 [] t = "D" -> 1 [] OTHER -> 1
window_start(t) == 0
window_end(t) ==
    CASE t = "A" -> 4 [] t = "B" -> FarPort + 5 [] t = "C" -> 50 [] t = "D" -> 8
      [] t = "G" -> 400 [] t = "H" -> 500 [] t = "I" -> 400
      [] t = "L" -> 3 * VeryFarPort
      [] OTHER -> 12
\* trade.time_window: the earliest pick up first, the latest drop off last
time_window(t) == <<window_start(t), window_end(t)>>

\* Vessel attributes.
capacity(v) == IF v = 1 THEN 2 ELSE 1

Abs(x) == IF x < 0 THEN -x ELSE x
get_network_distance(a, b) == Abs(a - b)
get_travel_time(dist) == dist
get_loading_time(t) == amount(t)
get_loading_consumption(time) == time
get_ballast_consumption(time) == time
get_laden_consumption(time) == 2 * time

VARIABLES
    vessel_location,   \* vessel.location
    real_schedule,     \* vessel.schedule: the committed schedule of each vessel
    calls,             \* number of inform() / receive() calls so far
    pc,                \* position of the company in its call
    trades,            \* argument of the running inform()/receive()
    K, trial, best_result, best_score,          \* multi-start locals
    required, base_result, fallback,            \* post-auction locals
    lns_required, R, current_trades, lns_best_score, lns_iter, removed, \* _apply_lns locals
    order, pos,        \* argument of the running pass and index of the next trade
    schedules, scheduled_trades, costs, vessel_last_port,  \* pass locals
    trade_to_vessel,   \* self._trade_to_vessel
    post_auction,      \* argument of the running propose_schedules
    returned,          \* what propose_schedules returned (<<>> while running)
    trial_log,         \* history: the results of the multi-start trials so far
    company,           \* the class of the company object: "CompanyZ6" or "HarshCompany"
    bids,              \* the bids inform() is about to return
    future_trades,     \* HarshCompany: self._future_trades
    total_cost, max_completion_time,  \* HarshCompany: locals of _build_schedule_for_order
    count_n, count_max, count_K       \* a call _adaptive_shuffle_count(n_trades) with
                                      \* MAX_SHUFFLES = count_max, and what it returned

passVars == <<order, pos, schedules, scheduled_trades, costs, vessel_last_port, trade_to_vessel>>
msVars == <<K, trial, best_result, best_score, trial_log>>
postVars == <<required, base_result, fallback>>
lnsVars == <<lns_required, R, current_trades, lns_best_score, lns_iter, removed>>
envVars == <<vessel_location, real_schedule, calls>>
harshVars == <<future_trades, total_cost, max_completion_time>>
countVars == <<count_n, count_max, count_K>>
otherVars == <<company, harshVars, countVars>>
vars == <<envVars, pc, trades, post_auction, msVars, postVars, lnsVars, passVars, returned,
          otherVars, bids>>

\* ------------------------------------------------------------ small helpers
EmptyMap == [x \in {} |-> 0]
Put(f, k, v) == [x \in DOMAIN f \cup {k} |-> IF x = k THEN v ELSE f[x]]
Range(s) == {s[i] : i \in DOMAIN s}
Reverse(s) == [i \in 1..Len(s) |-> s[Len(s) + 1 - i]]
RECURSIVE SumOver(_, _)
SumOver(f, S) ==
    IF S = {} THEN 0
    ELSE LET x == CHOOSE y \in S : TRUE IN f[x] + SumOver(f, S \ {x})
\* sequences of distinct elements of S, of length at most n
RECURSIVE DistinctSeqs(_, _)
DistinctSeqs(S, n) ==
    IF n = 0 THEN {<<>>}
    ELSE LET shorter == DistinctSeqs(S, n - 1) IN
         shorter \cup {Append(s, x) : s \in shorter, x \in S}
Injective(s) == \A i, j \in DOMAIN s : s[i] = s[j] => i = j
Orderings(S, n) == {s \in DistinctSeqs(S, n) : Injective(s)}
Shuffles(s) == {p \in Orderings(Range(s), Len(s)) : Len(p) = Len(s)}

\* ------------------------------------------- the Schedule collaborator (MABLE)
\* A schedule is a sequence of events <<kind, trade>>, kind "P" (pick up) or "D" (drop off).
get_insertion_points(sched) == [i \in 1..(Len(sched) + 1) |-> i]

\* The pick up goes in front of the event now at position pickup, the drop off in
\* front of the event now at position dropoff (after the pick up when they are equal).
add_transportation(sched, trade, pickup, dropoff) ==
    SubSeq(sched, 1, pickup - 1) \o <<<<"P", trade>>>> \o
    SubSeq(sched, pickup, dropoff - 1) \o <<<<"D", trade>>>> \o
    SubSeq(sched, dropoff, Len(sched))

\* Sailing the schedule from the vessel's location at time 0: the state after the
\* events from position k on, [ok, time].
\* the one element of a set of one element
Only(S) == CHOOSE x \in S : TRUE

\* One event of a schedule: the vessel sails from loc to the port of the event and
\* loads or unloads there; [ok, port, time, load] when it leaves.
PortCall(event, loc, time, load, cap) ==
    LET t == event[2]
        port == IF event[1] = "P" THEN origin_port(t) ELSE destination_port(t)
        arrive == time + get_travel_time(get_network_distance(loc, port))
    IN IF event[1] = "P"
       THEN LET begin == IF arrive < window_start(t) THEN window_start(t) ELSE arrive IN
            [ok |-> ~(load + amount(t) > cap), port |-> port,
             time |-> begin + get_loading_time(t), load |-> load + amount(t)]
       ELSE LET finish == arrive + get_loading_time(t) IN
            [ok |-> ~(finish > window_end(t)), port |-> port,
             time |-> finish, load |-> load - amount(t)]

RECURSIVE Sail(_, _, _, _, _, _)
Sail(sched, k, loc, time, load, cap) ==
    IF k > Len(sched) THEN [ok |-> TRUE, time |-> time]
    ELSE Only({IF ~at.ok THEN [ok |-> FALSE, time |-> 0]
               ELSE Sail(sched, k + 1, at.port, at.time, at.load, cap) :
                  at \in {PortCall(sched[k], loc, time, load, cap)}})

Sailed(vessel, sched) == Sail(sched, 1, vessel_location[vessel], 0, 0, capacity(vessel))
verify_schedule(vessel, sched) == Sailed(vessel, sched).ok
completion_time(vessel, sched) == Sailed(vessel, sched).time

TradesOf(sched) == {sched[i][2] : i \in DOMAIN sched}

\* ------------------------------------------------------ ScheduleProposal
ScheduleProposal(s, st, c) == [schedules |-> s, scheduled_trades |-> st, costs |-> c]
\* sum(s.completion_time() for s in prop.schedules.values())
schedule_score(prop) ==
    SumOver([v \in DOMAIN prop.schedules |-> completion_time(v, prop.schedules[v])],
            DOMAIN prop.schedules)

\* --------------------------------------------------- _single_insertion_pass
\* Faulty variant: "<=" in the comparison of completion times, which keeps the
\* last enumerated candidate on ties.
BestInsertionLastOnTies(vessel, base, trade) ==
    LET points == get_insertion_points(base)
        pairs == {<<i, j>> \in (DOMAIN points) \X (DOMAIN points) : i <= j}
        tests == {[pair |-> p,
                   test |-> add_transportation(base, trade, points[p[1]], points[p[2]])] :
                     p \in pairs}
        cands == {[pair |-> c.pair, test |-> c.test, sailed |-> Sailed(vessel, c.test)] :
                     c \in tests}
        Earlier(p, q) == p[1] < q[1] \/ (p[1] = q[1] /\ p[2] <= q[2])
    IN Only({IF feasible = {} THEN <<>>
             ELSE LET best == CHOOSE c \in feasible :
                                 \A d \in feasible :
                                    \/ c.sailed.time < d.sailed.time
                                    \/ (c.sailed.time = d.sailed.time
                                            /\ Earlier(d.pair, c.pair))
                  IN <<best.test>> :
                feasible \in {{c \in cands : c.sailed.ok}}})

\* Faulty variant: the first feasible candidate is kept, whatever its completion time.
BestInsertionFirstFeasible(vessel, base, trade) ==
    LET points == get_insertion_points(base)
        pairs == {<<i, j>> \in (DOMAIN points) \X (DOMAIN points) : i <= j}
        tests == {[pair |-> p,
                   test |-> add_transportation(base, trade, points[p[1]], points[p[2]])] :
                     p \in pairs}
        cands == {[pair |-> c.pair, test |-> c.test, sailed |-> Sailed(vessel, c.test)] :
                     c \in tests}
        feasible == {c \in cands : c.sailed.ok}
        Earlier(p, q) == p[1] < q[1] \/ (p[1] = q[1] /\ p[2] <= q[2])
    IN IF feasible = {} THEN <<>>
       ELSE LET best == CHOOSE c \in feasible : \A d \in feasible : Earlier(c.pair, d.pair)
            IN <<best.test>>

\* The inner loops over (pickup, dropoff): the feasible candidate with minimum
\* completion time, the first enumerated on ties; <<>> when there is none.
BestInsertion(vessel, base, trade) ==
    LET points == get_insertion_points(base)
        pairs == {<<i, j>> \in (DOMAIN points) \X (DOMAIN points) : i <= j}
        tests == {[pair |-> p,
                   test |-> add_transportation(base, trade, points[p[1]], points[p[2]])] :
                     p \in pairs}
        cands == {[pair |-> c.pair, test |-> c.test, sailed |-> Sailed(vessel, c.test)] :
                     c \in tests}
        Earlier(p, q) == p[1] < q[1] \/ (p[1] = q[1] /\ p[2] <= q[2])
    IN Only({IF feasible = {} THEN <<>>
             ELSE LET best == CHOOSE c \in feasible :
                                 \A d \in feasible :
                                    \/ c.sailed.time < d.sailed.time
                                    \/ (c.sailed.time = d.sailed.time
                                            /\ Earlier(c.pair, d.pair))
                  IN <<best.test>> :
                feasible \in {{c \in cands : c.sailed.ok}}})

\* The cost estimate of the trade on the vessel, coming from prev_loc.
CostEstimate(vessel, trade, prev_loc) ==
    LET dist_empty == get_network_distance(prev_loc, origin_port(trade))
        c_empty == get_ballast_consumption(get_travel_time(dist_empty))
        load_t == get_loading_time(trade)
        load_c == get_loading_consumption(load_t)
        unload_c == get_loading_consumption(load_t)
        dist_loaded == get_network_distance(origin_port(trade), destination_port(trade))
        c_loaded == get_laden_consumption(get_travel_time(dist_loaded))
    IN c_empty + c_loaded + load_c + unload_c

\* Faulty variant: the prior location is always the vessel's real location.
RecordCostFromRealLocation(st, trade, vessel) ==
    Put(st.costs, trade, CostEstimate(vessel, trade, vessel_location[vessel]))

\* Faulty variant: the cost is recorded only on the "else" branch of the prior location,
\* that is for the first trade a vessel takes in the pass.
RecordCostFirstOnly(st, trade, vessel) ==
    IF vessel \in DOMAIN st.vessel_last_port THEN st.costs
    ELSE Put(st.costs, trade, CostEstimate(vessel, trade, vessel_location[vessel]))

\* "COST CALCULATION": costs[trade] from the vessel's last port in this pass, or
\* from its real location before its first trade of the pass.
RecordCost(st, trade, vessel) ==
    LET prev_loc == IF vessel \in DOMAIN st.vessel_last_port
                    THEN st.vessel_last_port[vessel]
                    ELSE vessel_location[vessel]
    IN Put(st.costs, trade, CostEstimate(vessel, trade, prev_loc))

\* Faulty variant: the last port is updated outside the "if best_schedule", also for
\* a vessel that cannot take the trade.
TryVesselMovingAnyway(st, trade, vessel) ==
    LET current == IF vessel \in DOMAIN st.schedules THEN st.schedules[vessel]
                   ELSE real_schedule[vessel]
        best_schedule == BestInsertion(vessel, current, trade)
        moved == Put(st.vessel_last_port, vessel, destination_port(trade))
    IN IF best_schedule = <<>> THEN [st EXCEPT !.vessel_last_port = moved]
       ELSE [schedules |-> Put(st.schedules, vessel, best_schedule[1]),
             scheduled_trades |-> Append(st.scheduled_trades, trade),
             trade_to_vessel |-> Put(st.trade_to_vessel, trade, vessel),
             costs |-> RecordCost(st, trade, vessel),
             vessel_last_port |-> moved]

\* Faulty variant: the candidates are always built from the vessel's real schedule.
TryVesselFromRealSchedule(st, trade, vessel) ==
    LET current == real_schedule[vessel]
        best_schedule == BestInsertion(vessel, current, trade)
    IN IF best_schedule = <<>> THEN st
       ELSE [schedules |-> Put(st.schedules, vessel, best_schedule[1]),
             scheduled_trades |-> Append(st.scheduled_trades, trade),
             trade_to_vessel |-> Put(st.trade_to_vessel, trade, vessel),
             costs |-> RecordCost(st, trade, vessel),
             vessel_last_port |-> Put(st.vessel_last_port, vessel, destination_port(trade))]

\* The body of "for vessel in self._fleet" for one vessel, on the pass locals st.
TryVessel(st, trade, vessel) ==
    LET current == IF vessel \in DOMAIN st.schedules THEN st.schedules[vessel]
                   ELSE real_schedule[vessel]
    IN Only({IF best_schedule = <<>> THEN st
             ELSE [schedules |-> Put(st.schedules, vessel, best_schedule[1]),
                   scheduled_trades |-> Append(st.scheduled_trades, trade),
                   trade_to_vessel |-> Put(st.trade_to_vessel, trade, vessel),
                   costs |-> RecordCost(st, trade, vessel),
                   vessel_last_port |-> Put(st.vessel_last_port, vessel,
                                            destination_port(trade))] :
                best_schedule \in {BestInsertion(vessel, current, trade)}})

\* "for vessel in self._fleet": every vessel from index i on is tried, in fleet order.
\* The locals after a vessel are computed once, before the next vessel is tried.
RECURSIVE VesselLoop(_, _, _)
VesselLoop(st, trade, i) ==
    IF i > Len(Fleet) THEN st
    ELSE Only({VesselLoop(after, trade, i + 1) : after \in {TryVessel(st, trade, Fleet[i])}})

\* The locals of a pass before its first trade.
FreshLocals ==
    [schedules |-> EmptyMap, scheduled_trades |-> <<>>,
     trade_to_vessel |-> EmptyMap, costs |-> EmptyMap,
     vessel_last_port |-> EmptyMap]

\* "for trade in trades": the trades from index i on, in the given order.
RECURSIVE TradeLoop(_, _, _)
TradeLoop(st, trade_order, i) ==
    IF i > Len(trade_order) THEN st
    ELSE TradeLoop(VesselLoop(st, trade_order[i], 1), trade_order, i + 1)

\* The whole pass as a function of the trade order and the fleet.
_single_insertion_pass(trade_order) ==
    LET st == TradeLoop(FreshLocals, trade_order, 1)
    IN ScheduleProposal(st.schedules, st.scheduled_trades, st.costs)

PassLocals ==
    [schedules |-> schedules, scheduled_trades |-> scheduled_trades,
     trade_to_vessel |-> trade_to_vessel, costs |-> costs,
     vessel_last_port |-> vessel_last_port]

\* Faulty variant: the last ports are kept from the pass run before on the company.
BeginPassKeepingLastPorts(trade_order) ==
    /\ order' = trade_order
    /\ pos' = 1
    /\ schedules' = EmptyMap
    /\ scheduled_trades' = <<>>
    /\ costs' = EmptyMap
    /\ UNCHANGED vessel_last_port
    /\ trade_to_vessel' = EmptyMap

\* The locals at the start of a pass.
BeginPass(trade_order) ==
    /\ order' = trade_order
    /\ pos' = 1
    /\ schedules' = EmptyMap
    /\ scheduled_trades' = <<>>
    /\ costs' = EmptyMap
    /\ vessel_last_port' = EmptyMap
    /\ trade_to_vessel' = EmptyMap

InPass == pc \in {"TrialPass", "BasePass", "FallbackPass", "LnsPass"}
PassDone == InPass /\ pos > Len(order)
PassResult == ScheduleProposal(schedules, scheduled_trades, costs)

\* One iteration of "for trade in trades".
InsertTrade ==
    /\ InPass
    /\ pos <= Len(order)
    /\ \E st \in {VesselLoop(PassLocals, order[pos], 1)} :
        /\ schedules' = st.schedules
        /\ scheduled_trades' = st.scheduled_trades
        /\ trade_to_vessel' = st.trade_to_vessel
        /\ costs' = st.costs
        /\ vessel_last_port' = st.vessel_last_port
    /\ pos' = pos + 1
    /\ UNCHANGED <<envVars, pc, trades, post_auction, msVars, postVars, lnsVars, order, returned>>
    /\ UNCHANGED <<otherVars, bids>>

\* ----------------------------------------------------------- the auction
\* Trades already in a vessel's committed schedule are not offered again.
Committed == UNION {TradesOf(real_schedule[v]) : v \in Vessels}
TradeLists == Orderings(Trades \ Committed, MaxTrades)

\* The committed schedules at the start of a run: nothing yet, or the earlier trade,
\* which receive() put into the schedule of every vessel that could take it.
InitialSchedules ==
    {[v \in Vessels |-> <<>>],
     [v \in Vessels |-> <<<<"P", EarlierTrade>>, <<"D", EarlierTrade>>>>]}

NoResult == ScheduleProposal(EmptyMap, <<>>, EmptyMap)

\* The company object of a run is of one of the two classes.
Companies == {"CompanyZ6", "HarshCompany"}

ResetMultiStart ==
    /\ K' = 0
    /\ trial' = 0
    /\ best_result' = <<>>
    /\ best_score' = <<>>
    /\ trial_log' = <<>>
ResetPost ==
    /\ required' = {}
    /\ base_result' = NoResult
    /\ fallback' = <<>>
ResetLns ==
    /\ lns_required' = {}
    /\ R' = NoResult
    /\ current_trades' = <<>>
    /\ lns_best_score' = 0
    /\ lns_iter' = 0
    /\ removed' = <<>>
ResetPass ==
    /\ order' = <<>>
    /\ pos' = 1
    /\ schedules' = EmptyMap
    /\ scheduled_trades' = <<>>
    /\ costs' = EmptyMap
    /\ vessel_last_port' = EmptyMap

Init ==
    /\ vessel_location = [v \in Vessels |-> HomePort]
    /\ real_schedule \in InitialSchedules
    /\ calls = 0
    /\ pc = "Idle"
    /\ trades = <<>>
    /\ post_auction = FALSE
    /\ K = 0 /\ trial = 0 /\ best_result = <<>> /\ best_score = <<>> /\ trial_log = <<>>
    /\ required = {} /\ base_result = NoResult /\ fallback = <<>>
    /\ lns_required = {} /\ R = NoResult /\ current_trades = <<>>
    /\ lns_best_score = 0 /\ lns_iter = 0 /\ removed = <<>>
    /\ order = <<>> /\ pos = 1 /\ schedules = EmptyMap /\ scheduled_trades = <<>>
    /\ costs = EmptyMap /\ vessel_last_port = EmptyMap
    /\ trade_to_vessel = EmptyMap
    /\ returned = <<>>
    /\ company \in Companies
    /\ bids = <<>>
    /\ future_trades = <<>>
    /\ total_cost = 0 /\ max_completion_time = 0
    /\ count_n = 0 /\ count_max = ShippedMaxShuffles /\ count_K = 0

\* ------------------------------------------------- pre-auction: multi-start
Max(a, b) == IF a > b THEN a ELSE b
Min(a, b) == IF a < b THEN a ELSE b

\* Faulty variant: the tiers are cut with "<" in place of "<=".
AdaptiveShuffleCountStrictTiers(n_trades, MAX_SHUFFLES) ==
    IF n_trades < 10 THEN MAX_SHUFFLES
    ELSE IF n_trades < 25 THEN Max(3, MAX_SHUFFLES \div 2)
    ELSE IF n_trades < 50 THEN 2
    ELSE 1

\* Faulty variant: no trial for an empty trade list.
AdaptiveShuffleCountUpToTrades(n_trades, MAX_SHUFFLES) ==
    IF n_trades <= 10 THEN Min(n_trades, MAX_SHUFFLES)
    ELSE IF n_trades <= 25 THEN Max(3, MAX_SHUFFLES \div 2)
    ELSE IF n_trades <= 50 THEN 2
    ELSE 1

\* MAX_SHUFFLES is a class attribute (shipped as 1); it is an input of the call here.
_adaptive_shuffle_count(n_trades, MAX_SHUFFLES) ==
    IF n_trades <= 10 THEN MAX_SHUFFLES
    ELSE IF n_trades <= 25 THEN Max(3, MAX_SHUFFLES \div 2)
    ELSE IF n_trades <= 50 THEN 2
    ELSE 1

\* A call of _adaptive_shuffle_count on its own, for any trade count.
AdaptiveShuffleCount ==
    /\ pc = "Count"
    /\ count_K' = _adaptive_shuffle_count(count_n, count_max)
    /\ pc' = "Counted"
    /\ UNCHANGED <<envVars, trades, post_auction, msVars, postVars, lnsVars, passVars,
                   returned, company, harshVars, count_n, count_max, bids>>

\* score of one trial result
TrialScore(result) ==
    (0 - ScoreWeight) * Len(result.scheduled_trades) + schedule_score(result)

\* Faulty variant: the comparison is left out; the last trial always replaces the best.
LastTrialReplaces(score, best) == TRUE

\* Faulty variant: "score <= best_score", which keeps the last of several equal trials.
NotWorseThanBest(score, best) == best = <<>> \/ score <= best[1]

\* score < best_score, where best_score = <<>> stands for float("inf")
BetterThanBest(score, best) == best = <<>> \/ score < best[1]

\* inform(trades) -> propose_schedules(trades, post_auction=False), up to the loop
Inform ==
    /\ company = "CompanyZ6"
    /\ pc = "Idle"
    /\ calls < MaxCalls
    /\ calls' = calls + 1
    /\ \E trs \in TradeLists, MAX_SHUFFLES \in ShippedMaxShuffles..MaxShuffles :
        /\ trades' = trs
        /\ K' = _adaptive_shuffle_count(Len(trs), MAX_SHUFFLES)
    /\ post_auction' = FALSE
    /\ trial' = 0
    /\ best_result' = <<>>
    /\ best_score' = <<>>
    /\ trial_log' = <<>>
    /\ returned' = <<>>
    /\ pc' = "Estimating"
    /\ UNCHANGED <<vessel_location, real_schedule, postVars, lnsVars, passVars>>
    /\ UNCHANGED <<otherVars, bids>>

\* one iteration of "for _ in range(K)" up to the call of the pass
StartTrial ==
    /\ pc = "Estimating"
    /\ trial < K
    /\ \E trial_trades \in Shuffles(trades) : BeginPass(trial_trades)
    /\ pc' = "TrialPass"
    /\ UNCHANGED <<envVars, trades, post_auction, msVars, postVars, lnsVars, returned>>
    /\ UNCHANGED <<otherVars, bids>>

\* the rest of the iteration: score the result and keep it if it is better
EndTrial ==
    /\ pc = "TrialPass"
    /\ PassDone
    /\ LET result == PassResult
           score == TrialScore(result)
       IN /\ IF BetterThanBest(score, best_score)
             THEN best_score' = <<score>> /\ best_result' = <<result>>
             ELSE UNCHANGED <<best_score, best_result>>
          /\ trial_log' = Append(trial_log, result)
    /\ trial' = trial + 1
    /\ pc' = "Estimating"
    /\ ResetPass
    /\ UNCHANGED <<envVars, trades, post_auction, K, postVars, lnsVars, trade_to_vessel, returned>>
    /\ UNCHANGED <<otherVars, bids>>

\* Faulty variant: the loop is left after any trial, not after the K-th.
ReturnEstimateAfterAnyTrial ==
    /\ pc = "Estimating"
    /\ trial >= 1
    /\ returned' = best_result
    /\ pc' = "Done"
    /\ UNCHANGED <<envVars, trades, post_auction, msVars, postVars, lnsVars, passVars>>
    /\ UNCHANGED <<otherVars, bids>>

\* "return best_result"
ReturnEstimate ==
    /\ pc = "Estimating"
    /\ trial >= K
    /\ returned' = best_result
    /\ pc' = "Done"
    /\ UNCHANGED <<envVars, trades, post_auction, msVars, postVars, lnsVars, passVars>>
    /\ UNCHANGED <<otherVars, bids>>

\* the value of an absent dictionary entry: no vessel (the vessels are 1..NumVessels)
None == 0

\* "return self._trade_to_vessel.get(trade, None)"
_find_vessel_for_trade(trade) ==
    IF trade \in DOMAIN trade_to_vessel THEN trade_to_vessel[trade] ELSE None

\* Bid(amount, trade)
Bid(bid_value, trade) == [amount |-> bid_value, trade |-> trade]

\* Faulty variant: the "skip if impossible" test is left out; a trade without a cost
\* entry is bid at 0.
BidsForAll(trs, proposal) ==
    [i \in DOMAIN trs |->
        Bid(IF trs[i] \in DOMAIN proposal.costs THEN proposal.costs[trs[i]] ELSE 0, trs[i])]

\* "for trade in trades": a bid at the cost estimate for each trade of the proposal's
\* scheduled trades, in the order of the offer.
BidsFor(trs, proposal) ==
    LET kept == SelectSeq(trs, LAMBDA t : t \in Range(proposal.scheduled_trades))
    IN [i \in DOMAIN kept |-> Bid(proposal.costs[kept[i]], kept[i])]

\* _inform_internal after propose_schedules returned: the bids are made
MakeBids ==
    /\ company = "CompanyZ6"
    /\ pc = "Done"
    /\ ~post_auction
    /\ bids' = BidsFor(trades, returned[1])
    /\ pc' = "Bids"
    /\ UNCHANGED <<envVars, trades, post_auction, msVars, postVars, lnsVars, passVars,
                   returned, otherVars>>

\* inform() returns its bids; the company waits for the next call
FinishInform ==
    /\ pc = "Bids"
    /\ pc' = "Idle"
    /\ trades' = <<>>
    /\ returned' = <<>>
    /\ bids' = <<>>
    /\ ResetMultiStart /\ ResetPass
    /\ UNCHANGED <<envVars, post_auction, postVars, lnsVars, trade_to_vessel, otherVars>>

\* --------------------------------------------------- post-auction: commit
\* The locals of _apply_lns(initial_result) before its loop.
BeginLns(initial_result) ==
    /\ lns_required' = Range(initial_result.scheduled_trades)
    /\ R' = initial_result
    /\ current_trades' = initial_result.scheduled_trades
    /\ lns_best_score' = schedule_score(initial_result)
    /\ lns_iter' = 0
    /\ removed' = <<>>

\* Faulty variant: the comparison with the required set is left out.
CoversAnything(result, req) == TRUE

\* "set(result.scheduled_trades) == required"
CoversRequired(result, req) == Range(result.scheduled_trades) = req

\* Faulty variant: the forward-order result stays the base after a successful fallback.
KeepForwardBase(forward, reversed) == forward

\* "base_result = fallback"
FallbackBase(forward, reversed) == reversed

\* receive(contracts) -> propose_schedules(trades, post_auction=True), up to the base pass
Receive ==
    /\ company = "CompanyZ6"
    /\ pc = "Idle"
    /\ calls < MaxCalls
    /\ calls' = calls + 1
    /\ \E trs \in TradeLists :
        /\ trades' = trs
        /\ required' = Range(trs)
        /\ BeginPass(trs)
    /\ post_auction' = TRUE
    /\ returned' = <<>>
    /\ pc' = "BasePass"
    /\ UNCHANGED <<vessel_location, real_schedule, msVars, base_result, fallback, lnsVars>>
    /\ UNCHANGED <<otherVars, bids>>

\* after the base pass: refine it, or try the reversed order
EndBase ==
    /\ pc = "BasePass"
    /\ PassDone
    /\ base_result' = PassResult
    /\ IF ~CoversRequired(PassResult, required)
       THEN /\ BeginPass(Reverse(trades))
            /\ pc' = "FallbackPass"
            /\ UNCHANGED <<lnsVars, returned>>
       ELSE IF LNS_ENABLED
       THEN /\ BeginLns(PassResult)
            /\ pc' = "Refining"
            /\ UNCHANGED <<passVars, returned>>
       ELSE /\ returned' = <<PassResult>>
            /\ pc' = "Done"
            /\ UNCHANGED <<lnsVars, passVars>>
    /\ UNCHANGED <<envVars, trades, post_auction, msVars, required, fallback>>
    /\ UNCHANGED <<otherVars, bids>>

\* after the fallback pass: refine it, or give up and return the base result
EndFallback ==
    /\ pc = "FallbackPass"
    /\ PassDone
    /\ fallback' = <<PassResult>>
    /\ IF CoversRequired(PassResult, required)
       THEN /\ base_result' = FallbackBase(base_result, PassResult)
            /\ IF LNS_ENABLED
               THEN BeginLns(base_result') /\ pc' = "Refining" /\ UNCHANGED returned
               ELSE returned' = <<base_result'>> /\ pc' = "Done" /\ UNCHANGED lnsVars
       ELSE /\ returned' = <<base_result>>
            /\ pc' = "Failed"
            /\ UNCHANGED <<base_result, lnsVars>>
    /\ UNCHANGED <<envVars, trades, post_auction, msVars, required, passVars>>
    /\ UNCHANGED <<otherVars, bids>>

\* random.sample(population, k): k elements at distinct positions, in any order
Samples(population, k) ==
    {[i \in 1..k |-> population[idx[i]]] :
        idx \in {s \in Orderings(DOMAIN population, k) : Len(s) = k}}

\* one LNS iteration up to the repair pass: destroy
LnsDestroy ==
    /\ pc = "Refining"
    /\ lns_iter < LNS_ITERATIONS
    /\ current_trades # <<>>
    /\ LET k == Min(LNS_REMOVALS, Len(current_trades)) IN
       \E rem \in Samples(current_trades, k) :
          LET kept == SelectSeq(current_trades, LAMBDA t : t \notin Range(rem))
              reinsertion_order == kept \o rem
          IN /\ removed' = rem
             /\ BeginPass(reinsertion_order)
    /\ pc' = "LnsPass"
    /\ UNCHANGED <<envVars, trades, post_auction, msVars, postVars, lns_required, R,
                   current_trades, lns_best_score, lns_iter, returned>>
    /\ UNCHANGED <<otherVars, bids>>

\* Faulty variant: "cand_score <= best_score", which also adopts an equal total.
AdoptsOnTie(candidate, req, best) ==
    /\ Range(candidate.scheduled_trades) = req
    /\ schedule_score(candidate) <= best

\* Faulty variant: the hard safety check is left out; the score alone decides.
AdoptsOnScore(candidate, req, best) == schedule_score(candidate) < best

\* the candidate is adopted when it covers the required set and is strictly better
Adopts(candidate, req, best) ==
    /\ Range(candidate.scheduled_trades) = req
    /\ schedule_score(candidate) < best

\* Faulty variant: the iteration is not counted (a loop without its counter).
LnsRepairWithoutCount ==
    /\ pc = "LnsPass"
    /\ PassDone
    /\ IF Adopts(PassResult, lns_required, lns_best_score)
       THEN /\ R' = PassResult
            /\ current_trades' = PassResult.scheduled_trades
            /\ lns_best_score' = schedule_score(PassResult)
       ELSE UNCHANGED <<R, current_trades, lns_best_score>>
    /\ lns_iter' = lns_iter
    /\ pc' = "Refining"
    /\ removed' = <<>>
    /\ ResetPass
    /\ UNCHANGED <<envVars, trades, post_auction, msVars, postVars, lns_required,
                   trade_to_vessel, returned>>
    /\ UNCHANGED <<otherVars, bids>>

\* the rest of the iteration: the safety check and the comparison
LnsRepair ==
    /\ pc = "LnsPass"
    /\ PassDone
    /\ IF Adopts(PassResult, lns_required, lns_best_score)
       THEN /\ R' = PassResult
            /\ current_trades' = PassResult.scheduled_trades
            /\ lns_best_score' = schedule_score(PassResult)
       ELSE UNCHANGED <<R, current_trades, lns_best_score>>
    /\ lns_iter' = lns_iter + 1
    /\ pc' = "Refining"
    /\ removed' = <<>>
    /\ ResetPass
    /\ UNCHANGED <<envVars, trades, post_auction, msVars, postVars, lns_required,
                   trade_to_vessel, returned>>
    /\ UNCHANGED <<otherVars, bids>>

\* "return R", after the last iteration or the break on an empty list
LnsReturn ==
    /\ pc = "Refining"
    /\ (lns_iter >= LNS_ITERATIONS \/ current_trades = <<>>)
    /\ returned' = <<R>>
    /\ pc' = "Done"
    /\ UNCHANGED <<envVars, trades, post_auction, msVars, postVars, lnsVars, passVars>>
    /\ UNCHANGED <<otherVars, bids>>

\* receive(): apply_schedules(scheduling_proposal.schedules); the call ends
ApplySchedules ==
    /\ pc \in {"Done", "Failed"}
    /\ post_auction
    /\ real_schedule' = [v \in Vessels |->
            IF v \in DOMAIN returned[1].schedules THEN returned[1].schedules[v]
            ELSE real_schedule[v]]
    /\ pc' = "Idle"
    /\ trades' = <<>>
    /\ returned' = <<>>
    /\ ResetPost /\ ResetLns /\ ResetPass
    /\ UNCHANGED <<vessel_location, calls, post_auction, msVars, trade_to_vessel>>
    /\ UNCHANGED <<otherVars, bids>>

\* ======================================================================
\*              HarshCompany (src/harsh_agent/harsh_company.py)
\* ======================================================================
\* The trade lists of an auction: the slices of the stream of at most MaxHarshTrades.
HarshTradeLists ==
    {SubSeq(HarshStream, i, j) : i \in 1..(Len(HarshStream) + 1), j \in 0..Len(HarshStream)}
        \cap UNION {[1..n -> Range(HarshStream)] : n \in 0..MaxHarshTrades}
\* The trade lists pre_inform() announces for the next auction.
FutureTradeLists == {<<>>, <<"C">>}

\* pre_inform(trades, time)
PreInform ==
    /\ company = "HarshCompany"
    /\ pc = "Idle"
    /\ calls < MaxCalls
    /\ \E ft \in FutureTradeLists :
        /\ ft # future_trades
        /\ future_trades' = ft
    /\ UNCHANGED <<envVars, pc, trades, post_auction, msVars, postVars, lnsVars, passVars,
                   returned, company, countVars, bids, total_cost, max_completion_time>>

\* The candidate with minimum completion time of a set of [vessel, schedule, time],
\* the first in fleet order on ties; <<>> when the set is empty.
\* Faulty variant: "<=" in the comparison of completion times, which keeps the last
\* vessel of the fleet on ties.
MinCompletionLastOnTies(cands) ==
    IF cands = {} THEN <<>>
    ELSE <<CHOOSE c \in cands :
              \A d \in cands :
                  c.time < d.time \/ (c.time = d.time /\ c.vessel >= d.vessel)>>

\* Faulty variant: the first vessel with a feasible insertion takes the trade.
FirstFeasibleVessel(cands) ==
    IF cands = {} THEN <<>>
    ELSE <<CHOOSE c \in cands : \A d \in cands : c.vessel <= d.vessel>>

MinCompletion(cands) ==
    IF cands = {} THEN <<>>
    ELSE <<CHOOSE c \in cands :
              \A d \in cands :
                  c.time < d.time \/ (c.time = d.time /\ c.vessel <= d.vessel)>>

\* The vessels with a feasible insertion, each with its best schedule and its time.
FeasibleInsertions(insertions) ==
    {[vessel |-> c.vessel, schedule |-> c.found[1],
      time |-> completion_time(c.vessel, c.found[1])] :
        c \in {d \in insertions : d.found # <<>>}}

\* The loops over the vessels and the (pickup, dropoff) pairs with one best_schedule:
\* the feasible candidate with minimum completion time over the whole fleet, the first
\* in fleet order and position order on ties; <<>> when there is none.
BestOverFleet(scheds, trade) ==
    MinCompletion(FeasibleInsertions(
        {[vessel |-> v, found |-> BestInsertion(v, scheds[v], trade)] : v \in Vessels}))

\* "cost estimate for this trade on this vessel": loading, unloading, laden travel
HarshCost(vessel, trade) ==
    LET load_t == get_loading_time(trade)
        load_c == get_loading_consumption(load_t)
        unload_c == get_loading_consumption(load_t)
        dist == get_network_distance(origin_port(trade), destination_port(trade))
        travel_c == get_laden_consumption(get_travel_time(dist))
    IN load_c + unload_c + travel_c

\* The rest of the iteration once the best vessel and schedule are found: the trade
\* is skipped, or assigned to the best vessel and costed.
HarshAssign(st, trade, found) ==
    IF found = <<>> THEN st
    ELSE [st EXCEPT
             !.schedules = [st.schedules EXCEPT ![found[1].vessel] = found[1].schedule],
             !.scheduled_trades = Append(st.scheduled_trades, trade),
             !.costs = Put(st.costs, trade, HarshCost(found[1].vessel, trade)),
             !.total_cost = st.total_cost + HarshCost(found[1].vessel, trade),
             !.max_completion_time = Max(st.max_completion_time, found[1].time)]

\* the fleet's real schedules replaced by the working schedules
WithFleet(st) == [st EXCEPT !.fleet = st.schedules]

\* Faulty variant: the trade is inserted into the fleet's real schedules (no copy), so
\* a start sees what the start before it inserted.
HarshInsertTradeIntoFleet(st, trade) ==
    WithFleet(HarshAssign(st, trade, BestOverFleet(st.schedules, trade)))

\* One iteration of "for trade in trades_in_order" on the locals st.
HarshInsertTradeInto(st, trade) ==
    HarshAssign(st, trade, BestOverFleet(st.schedules, trade))

\* "for trade in trades_in_order": the trades from index i on, on the locals st.
RECURSIVE HarshTradeLoop(_, _, _)
HarshTradeLoop(st, trades_in_order, i) ==
    IF i > Len(trades_in_order) THEN st
    ELSE Only({HarshTradeLoop(after, trades_in_order, i + 1) :
                  after \in {HarshInsertTradeInto(st, trades_in_order[i])}})

\* _build_schedule_for_order as a function of the order and the fleet: the
\* schedules, the scheduled trades, the costs and the score tuple.
_build_schedule_for_order(trades_in_order) ==
    LET st == HarshTradeLoop(
                  [schedules |-> [v \in Vessels |-> real_schedule[v]],
                   scheduled_trades |-> <<>>, costs |-> EmptyMap, total_cost |-> 0,
                   max_completion_time |-> 0, fleet |-> real_schedule],
                  trades_in_order, 1)
    IN [schedules |-> st.schedules, scheduled_trades |-> st.scheduled_trades,
        costs |-> st.costs,
        score_tuple |-> <<0 - Len(st.scheduled_trades), st.total_cost,
                          st.max_completion_time>>]

\* The locals of _build_schedule_for_order at its start: copies of the real schedules.
HarshBeginPass(trades_in_order) ==
    /\ order' = trades_in_order
    /\ pos' = 1
    /\ schedules' = [v \in Vessels |-> real_schedule[v]]
    /\ scheduled_trades' = <<>>
    /\ costs' = EmptyMap
    /\ total_cost' = 0
    /\ max_completion_time' = 0

\* inform(trades) -> propose_schedules(trades), up to the start with the original order
HarshInform ==
    /\ company = "HarshCompany"
    /\ pc = "Idle"
    /\ calls < MaxCalls
    /\ calls' = calls + 1
    /\ \E trs \in HarshTradeLists :
        /\ trades' = trs
        /\ IF trs = <<>>
           THEN /\ returned' = <<NoResult>>
                /\ pc' = "HarshDone"
                /\ UNCHANGED <<order, pos, schedules, scheduled_trades, costs,
                               total_cost, max_completion_time>>
           ELSE /\ HarshBeginPass(trs)
                /\ returned' = <<>>
                /\ pc' = "HarshPass"
    /\ trial' = 0
    /\ best_result' = <<>>
    /\ best_score' = <<>>
    /\ UNCHANGED <<vessel_location, real_schedule, post_auction, K, trial_log, postVars,
                   lnsVars, vessel_last_port, trade_to_vessel, company, countVars, bids, future_trades>>

\* one iteration of "for trade in trades_in_order"
HarshInsertTrade ==
    /\ pc = "HarshPass"
    /\ pos <= Len(order)
    /\ \E st \in {HarshInsertTradeInto(
                    [schedules |-> schedules, scheduled_trades |-> scheduled_trades,
                     costs |-> costs, total_cost |-> total_cost,
                     max_completion_time |-> max_completion_time, fleet |-> real_schedule],
                    order[pos])} :
          /\ schedules' = st.schedules
          /\ scheduled_trades' = st.scheduled_trades
          /\ costs' = st.costs
          /\ total_cost' = st.total_cost
          /\ max_completion_time' = st.max_completion_time
          /\ real_schedule' = st.fleet
    /\ pos' = pos + 1
    /\ UNCHANGED <<vessel_location, calls, pc, trades, post_auction, msVars, postVars, lnsVars,
                   order, vessel_last_port, trade_to_vessel, returned, company, countVars, bids,
                   future_trades>>

\* score tuples are compared as Python compares tuples
TupleLess(a, b) ==
    \/ a[1] < b[1]
    \/ a[1] = b[1] /\ a[2] < b[2]
    \/ a[1] = b[1] /\ a[2] = b[2] /\ a[3] < b[3]

\* Faulty variant: "score <= best_score", which keeps the last of several equal starts.
StartNotWorse(score, best, start) == start = 0 \/ best = <<>> \/ ~TupleLess(best[1], score)

\* the start with the original order is kept as it is; a shuffled start replaces the
\* best one under "best_score is None or score < best_score"
StartIsBetter(score, best, start) == start = 0 \/ best = <<>> \/ TupleLess(score, best[1])

\* _build_schedule_for_order returns; the start is compared with the best one
HarshEndStart ==
    /\ pc = "HarshPass"
    /\ pos > Len(order)
    /\ LET result == ScheduleProposal(schedules, scheduled_trades, costs)
           score == <<0 - Len(scheduled_trades), total_cost, max_completion_time>>
       IN IF StartIsBetter(score, best_score, trial)
          THEN best_score' = <<score>> /\ best_result' = <<result>>
          ELSE UNCHANGED <<best_score, best_result>>
    /\ trial' = trial + 1
    /\ pc' = "HarshStarts"
    /\ order' = <<>>
    /\ pos' = 1
    /\ schedules' = EmptyMap
    /\ scheduled_trades' = <<>>
    /\ costs' = EmptyMap
    /\ total_cost' = 0
    /\ max_completion_time' = 0
    /\ UNCHANGED <<envVars, trades, post_auction, K, trial_log, postVars, lnsVars,
                   vessel_last_port, trade_to_vessel, returned, company, countVars, bids, future_trades>>

\* one iteration of "for _ in range(self.NUM_STARTS)" up to the call of the builder
HarshShuffle ==
    /\ pc = "HarshStarts"
    /\ trial <= NUM_STARTS
    /\ \E base_trades \in Shuffles(trades) : HarshBeginPass(base_trades)
    /\ pc' = "HarshPass"
    /\ UNCHANGED <<envVars, trades, post_auction, msVars, postVars, lnsVars,
                   vessel_last_port, trade_to_vessel, returned, company, countVars, bids, future_trades>>

\* "remember which vessel handles which trade": every trade goes to the first vessel
\* of best_schedules
LooseTradeToVessel(result) ==
    [t \in Range(result.scheduled_trades) \cap DOMAIN result.costs |-> Fleet[1]]

\* the rest of _propose_schedules_internal: the proposal of the best start is returned
HarshReturn ==
    /\ pc = "HarshStarts"
    /\ trial > NUM_STARTS
    /\ trade_to_vessel' = LooseTradeToVessel(best_result[1])
    /\ returned' = best_result
    /\ pc' = "HarshDone"
    /\ UNCHANGED <<envVars, trades, post_auction, msVars, postVars, lnsVars, order, pos,
                   schedules, scheduled_trades, costs, vessel_last_port, otherVars, bids>>

\* ------------------------------------------------- HarshCompany: bidding
\* Scores are kept as integers, 10000 times the float of the code; the attractiveness
\* of a destination is kept 20000 times, the price multiplier 200000 times.
\* _future_positioning_info(trade): [multiplier, attractiveness]
_future_positioning_info(trade) ==
    IF future_trades = <<>> THEN [multiplier |-> 200000, attractiveness |-> 0]
    ELSE LET distances == {get_network_distance(destination_port(trade),
                                                origin_port(future_trades[i])) :
                              i \in DOMAIN future_trades}
             d_min == CHOOSE d \in distances : \A e \in distances : d <= e
             attractiveness == Max(0, 20000 - d_min)
         IN [multiplier |-> 200000 + 10000 - attractiveness,
             attractiveness |-> attractiveness]

window_length(trade) == Max(0, time_window(trade)[Len(time_window(trade))] - time_window(trade)[1])

\* _score_trade(trade, base_cost)
_score_trade(trade, base_cost) ==
    LET dist == get_network_distance(origin_port(trade), destination_port(trade))
        cargo_amount == amount(trade)
        attractiveness == _future_positioning_info(trade).attractiveness
    IN (0 - base_cost) * 10 + window_length(trade) * 4 - dist + cargo_amount * 500
           + attractiveness * 2500

\* Faulty variant: the time-window filter is left out.
IsCandidateAnyWindow(trade, proposal) ==
    /\ trade \in Range(proposal.scheduled_trades)
    /\ get_network_distance(origin_port(trade), destination_port(trade)) <= MAX_TRADE_DISTANCE

\* the trade is scheduled and passes the filters 1 and 2
IsCandidate(trade, proposal) ==
    /\ trade \in Range(proposal.scheduled_trades)
    /\ ~(window_length(trade) < MIN_WINDOW_LENGTH)
    /\ ~(get_network_distance(origin_port(trade), destination_port(trade)) > MAX_TRADE_DISTANCE)

\* "candidates": (score, trade, base_cost) for the offered trades that pass
Candidates(trs, proposal) ==
    LET kept == SelectSeq(trs, LAMBDA t : IsCandidate(t, proposal))
    IN [i \in DOMAIN kept |->
           [score |-> _score_trade(kept[i], proposal.costs[kept[i]]),
            trade |-> kept[i], base_cost |-> proposal.costs[kept[i]]]]

\* candidates.sort(key=lambda x: x[0], reverse=True): high to low, equal scores in
\* their order in the list
SortHighToLow(cands) ==
    LET Before(i, j) == cands[i].score > cands[j].score
                            \/ (cands[i].score = cands[j].score /\ i < j)
        rank == [i \in DOMAIN cands |-> 1 + Cardinality({j \in DOMAIN cands : Before(j, i)})]
    IN [r \in DOMAIN cands |-> cands[CHOOSE i \in DOMAIN cands : rank[i] = r]]

\* the noise on a bid, in percent: random.uniform(-0.02, 0.02)
NoisePercents == {-2, 0, 2}

\* The bid value is the product of the base cost, 1.08 (in percent), the position
\* multiplier and the noise factor (in percent); it is kept as its factors.
HarshBid(cand, noise) ==
    Bid(<<cand.base_cost, 108, _future_positioning_info(cand.trade).multiplier, 100 + noise>>,
        cand.trade)

\* inform() after propose_schedules returned: filter, score, sort, bid on the best few
HarshMakeBids ==
    /\ pc = "HarshDone"
    /\ \E sorted \in {SortHighToLow(Candidates(trades, returned[1]))} :
          \E noise \in [1..Min(Len(sorted), MAX_BIDS_PER_AUCTION) -> NoisePercents] :
             bids' = [idx \in DOMAIN noise |-> HarshBid(sorted[idx], noise[idx])]
    /\ pc' = "HarshBids"
    /\ UNCHANGED <<envVars, trades, post_auction, msVars, postVars, lnsVars, passVars,
                   returned, otherVars>>

\* inform() returns its bids; the company waits for the next call
HarshFinish ==
    /\ pc = "HarshBids"
    /\ pc' = "Idle"
    /\ trades' = <<>>
    /\ returned' = <<>>
    /\ bids' = <<>>
    /\ trial' = 0
    /\ best_result' = <<>>
    /\ best_score' = <<>>
    /\ UNCHANGED <<envVars, post_auction, K, trial_log, postVars, lnsVars, passVars, otherVars>>

\* ------------------------------------------------------- specifications
\* the steps of a CompanyZ6 object
NextZ6 ==
    \/ Inform \/ StartTrial \/ InsertTrade \/ EndTrial \/ ReturnEstimate
    \/ MakeBids \/ FinishInform
    \/ Receive \/ EndBase \/ EndFallback
    \/ LnsDestroy \/ LnsRepair \/ LnsReturn \/ ApplySchedules

\* the steps of a HarshCompany object
NextHarsh ==
    \/ PreInform \/ HarshInform \/ HarshInsertTrade \/ HarshEndStart \/ HarshShuffle
    \/ HarshReturn \/ HarshMakeBids \/ HarshFinish

Next ==
    \/ Inform \/ StartTrial \/ InsertTrade \/ EndTrial \/ ReturnEstimate
    \/ MakeBids \/ FinishInform
    \/ Receive \/ EndBase \/ EndFallback
    \/ LnsDestroy \/ LnsRepair \/ LnsReturn \/ ApplySchedules
    \/ PreInform \/ HarshInform \/ HarshInsertTrade \/ HarshEndStart \/ HarshShuffle
    \/ HarshReturn \/ HarshMakeBids \/ HarshFinish

InitZ6 == Init /\ company = "CompanyZ6"
InitHarsh == Init /\ company = "HarshCompany"

\* a company object of either class
Spec == Init /\ [][Next]_vars
\* a CompanyZ6 object
SpecZ6 == InitZ6 /\ [][NextZ6]_vars
\* a HarshCompany object
SpecHarsh == InitHarsh /\ [][NextHarsh]_vars

\* A call runs to its end without suspension: a step of propose_schedules that can
\* be taken is taken.  The calls themselves (inform, receive) come when they come.
ProposeStep ==
    \/ StartTrial \/ InsertTrade \/ EndTrial \/ ReturnEstimate
    \/ EndBase \/ EndFallback \/ LnsDestroy \/ LnsRepair \/ LnsReturn
FairSpecZ6 == SpecZ6 /\ WF_vars(ProposeStep)

\* _adaptive_shuffle_count called on its own with a trade count and a MAX_SHUFFLES
InitCount ==
    /\ vessel_location = [v \in Vessels |-> HomePort]
    /\ real_schedule = [v \in Vessels |-> <<>>]
    /\ calls = 0
    /\ pc = "Count"
    /\ trades = <<>>
    /\ post_auction = FALSE
    /\ K = 0 /\ trial = 0 /\ best_result = <<>> /\ best_score = <<>> /\ trial_log = <<>>
    /\ required = {} /\ base_result = NoResult /\ fallback = <<>>
    /\ lns_required = {} /\ R = NoResult /\ current_trades = <<>>
    /\ lns_best_score = 0 /\ lns_iter = 0 /\ removed = <<>>
    /\ order = <<>> /\ pos = 1 /\ schedules = EmptyMap /\ scheduled_trades = <<>>
    /\ costs = EmptyMap /\ vessel_last_port = EmptyMap
    /\ trade_to_vessel = EmptyMap
    /\ returned = <<>>
    /\ company = "CompanyZ6"
    /\ bids = <<>>
    /\ future_trades = <<>>
    /\ total_cost = 0 /\ max_completion_time = 0
    /\ count_n \in 0..MaxCountedTrades
    /\ count_max \in ShippedMaxShuffles..MaxClassShuffles
    /\ count_K = 0
NextCount == AdaptiveShuffleCount
SpecCount == InitCount /\ [][NextCount]_vars

\* The estimation path as a whole: the calls of a CompanyZ6 object, and
\* _adaptive_shuffle_count on the trade counts no modelled call reaches.
InitEstimation == InitZ6 \/ InitCount
NextEstimation ==
    \/ Inform \/ StartTrial \/ InsertTrade \/ EndTrial \/ ReturnEstimate
    \/ MakeBids \/ FinishInform
    \/ Receive \/ EndBase \/ EndFallback
    \/ LnsDestroy \/ LnsRepair \/ LnsReturn \/ ApplySchedules
    \/ AdaptiveShuffleCount
SpecEstimation == InitEstimation /\ [][NextEstimation]_vars

\* ======================================================================
\*                              properties
\* ======================================================================
WorkingSchedule(v) == IF v \in DOMAIN schedules THEN schedules[v] ELSE real_schedule[v]
\* the vessels whose schedule in the assignment contains the trade
Carriers(assignment, t) == {v \in DOMAIN assignment : t \in TradesOf(assignment[v])}
NumScheduled(result) == Cardinality(Range(result.scheduled_trades))
CommitDone == pc = "Done" /\ post_auction
EstimateDone == pc = "Done" /\ ~post_auction

\* C1: at the end of a pass every scheduled trade is one of the input trades and is
\* contained in the schedule of exactly one vessel of the returned assignment.
C1_ScheduledInExactlyOneVessel ==
    PassDone =>
        \A t \in Range(scheduled_trades) :
            /\ t \in Range(order)
            /\ Cardinality(Carriers(schedules, t)) = 1

\* C2: a commit-path call that ends in Done returns a proposal whose scheduled set
\* is the set of won trades, whatever subsets the LNS removed.
C2_DoneSchedulesAllWon ==
    CommitDone => Range(returned[1].scheduled_trades) = Range(trades)

\* a commit of several trades that went through all LNS iterations and adopted a candidate
C2_Witness ==
    /\ CommitDone
    /\ Len(trades) >= 2
    /\ lns_iter = LNS_ITERATIONS
    /\ returned[1] # base_result

\* C3: every LNS iteration leaves a current best whose scheduled set is the required
\* set, a candidate with another scheduled set is never adopted, and the proposal
\* returned by the LNS has the required scheduled set.
C3_LnsKeepsRequiredSet ==
    [][/\ (pc = "LnsPass" /\ pc' = "Refining") =>
            /\ Range(R'.scheduled_trades) = lns_required
            /\ (Range(scheduled_trades) # lns_required => R' = R)
       /\ (pc = "Refining" /\ pc' = "Done") =>
            Range(returned'[1].scheduled_trades) = lns_required]_vars

\* the LNS is about to discard a candidate that misses a required trade although its
\* score is lower than the best one
C3_Witness ==
    /\ pc = "LnsPass"
    /\ PassDone
    /\ Range(scheduled_trades) # lns_required
    /\ schedule_score(PassResult) < lns_best_score

\* the first vessel, in fleet order, with a feasible insertion of the trade
FeasibleVessels(t) == {v \in Vessels : BestInsertion(v, WorkingSchedule(v), t) # <<>>}
FirstFeasible(t) == CHOOSE v \in FeasibleVessels(t) : \A w \in FeasibleVessels(t) : v <= w

\* C4: a step of the pass assigns the trade to the first vessel with a feasible
\* candidate only: the working schedule of every other vessel stays as it was.
C4_FirstFeasibleVesselOnly ==
    [][(InPass /\ pos <= Len(order) /\ pos' = pos + 1) =>
          \A v \in Vessels :
              (FeasibleVessels(order[pos]) = {} \/ v # FirstFeasible(order[pos]))
                  => WorkingSchedule(v)' = WorkingSchedule(v)]_vars

\* the required trades a result schedules
RequiredScheduled(result) == Cardinality(Range(result.scheduled_trades) \cap required)

\* C5: a call that ends in Failed has not run the LNS and returns a proposal that
\* schedules at least as many required trades as the forward-order result and as the
\* reversed-order result.
C5_FailedReturnsBestPartial ==
    pc = "Failed" =>
        /\ lns_iter = 0 /\ R = NoResult
        /\ RequiredScheduled(returned[1]) >= RequiredScheduled(base_result)
        /\ RequiredScheduled(returned[1]) >= RequiredScheduled(fallback[1])

\* the unscheduled required trades a returned proposal lists
UnscheduledListed(proposal) ==
    IF "unscheduled_trades" \in DOMAIN proposal THEN Range(proposal.unscheduled_trades)
    ELSE {}

\* C6: a call that ends in Failed returns, with the partial proposal, the list of the
\* required trades that are not scheduled.
C6_FailedListsUnscheduled ==
    pc = "Failed" =>
        /\ returned # <<>>
        /\ UnscheduledListed(returned[1]) = required \ Range(returned[1].scheduled_trades)

\* C7: the reversed-order pass starts only after a forward-order pass that missed a
\* required trade; when the reversed-order pass schedules every required trade the
\* call goes on to Refining with the reversed-order result as the base of the LNS.
C7_FallbackOnlyAfterShortfall ==
    [][/\ (pc # "FallbackPass" /\ pc' = "FallbackPass") =>
            /\ pc = "BasePass"
            /\ Range(scheduled_trades) # required
       /\ (pc = "FallbackPass" /\ PassDone /\ Range(scheduled_trades) = required
              /\ pc' # pc) =>
            /\ pc' = "Refining"
            /\ R' = PassResult
            /\ base_result' = PassResult]_vars

\* the LNS starts from a reversed-order result that differs from the forward-order one
C7_Witness ==
    /\ pc = "Refining"
    /\ lns_iter = 0
    /\ fallback # <<>>
    /\ R = fallback[1]
    /\ Len(trades) = 2
    /\ Range(R.scheduled_trades) = required

\* C8: a returned proposal has a cost entry for exactly the trades of its scheduled set.
C8_CostIffScheduled ==
    (pc \in {"Done", "Failed"} /\ returned # <<>>) =>
        DOMAIN returned[1].costs = Range(returned[1].scheduled_trades)

\* a returned proposal with a trade that is scheduled and one that found no vessel
C8_Witness ==
    /\ pc \in {"Done", "Failed"}
    /\ returned # <<>>
    /\ \E t, u \in Range(trades) :
          /\ t \in DOMAIN returned[1].costs
          /\ u \notin DOMAIN returned[1].costs
          /\ u \notin Range(returned[1].scheduled_trades)

\* C9: of two trial results the one that schedules strictly more trades has the
\* strictly lower score, whatever their total completion times.
C9_MoreTradesScoreLower ==
    \A i, j \in DOMAIN trial_log :
        NumScheduled(trial_log[i]) > NumScheduled(trial_log[j])
            => TrialScore(trial_log[i]) < TrialScore(trial_log[j])

\* the first trial with the lowest score
FirstLowest(log) ==
    CHOOSE i \in DOMAIN log :
        /\ \A j \in DOMAIN log : TrialScore(log[i]) <= TrialScore(log[j])
        /\ \A j \in 1..(i - 1) : TrialScore(log[j]) > TrialScore(log[i])

\* C10: the estimation returns, whole, the result of the first of the K trials that
\* has the lowest score.
C10_ReturnsFirstLowestTrial ==
    EstimateDone =>
        /\ Len(trial_log) = K
        /\ returned = <<trial_log[FirstLowest(trial_log)]>>

\* two trials with the same score and different results: the first one is returned
C10_Witness ==
    /\ EstimateDone
    /\ Len(trial_log) = 2
    /\ TrialScore(trial_log[1]) = TrialScore(trial_log[2])
    /\ trial_log[1] # trial_log[2]
    /\ returned = <<trial_log[1]>>

\* C11: evaluating one more trial never raises the best score retained by the
\* multi-start search: after the trial a best score is retained and it is less than
\* or equal to the one retained before the trial (none retained stands for infinity).
C11_BestScoreNeverRises ==
    [][(pc = "TrialPass" /\ pc' = "Estimating") =>
          /\ best_score' # <<>>
          /\ best_score # <<>> => best_score'[1] <= best_score[1]
          /\ best_score'[1] <= TrialScore(PassResult)]_vars

\* a second trial scored worse than the first one and the first score was retained
C11_Witness ==
    /\ pc = "Estimating"
    /\ Len(trial_log) = 2
    /\ TrialScore(trial_log[2]) > TrialScore(trial_log[1])
    /\ best_score = <<TrialScore(trial_log[1])>>

\* C12: the result of a pass is a function of its trade order and of the fleet (the
\* vessels' committed schedules and locations) alone, whatever passes ran before on
\* the company: a finished pass has the assignment, the scheduled sequence and the
\* costs of the pass computed from fresh locals, and a repair pass over the order of
\* the forward pass ends with the result of the forward pass.
C12_PassIsDeterministic ==
    PassDone =>
        /\ PassResult = _single_insertion_pass(order)
        /\ (pc = "LnsPass" /\ order = trades /\ fallback = <<>>) => PassResult = base_result

\* a repair pass, after other passes, has run over the order of the forward pass
C12_Witness ==
    /\ pc = "LnsPass"
    /\ PassDone
    /\ lns_iter >= 1
    /\ order = trades
    /\ fallback = <<>>
    /\ Len(scheduled_trades) >= 2

\* C13: an LNS iteration replaces the current best only by a candidate that covers
\* the required set and has a strictly lower total completion time; a candidate that
\* is not strictly better (an equal total included) leaves the best, its trade list
\* and its score as they were; and when no candidate was adopted (the best score is
\* still the one of the input) the LNS returns its input unchanged.
C13_LnsAdoptsOnlyStrictlyBetter ==
    [][/\ (pc = "LnsPass" /\ pc' = "Refining") =>
            /\ R' # R =>
                  /\ Range(scheduled_trades) = lns_required
                  /\ schedule_score(PassResult) < lns_best_score
                  /\ R' = PassResult
            /\ schedule_score(PassResult) >= lns_best_score =>
                  /\ R' = R
                  /\ current_trades' = current_trades
                  /\ lns_best_score' = lns_best_score
       /\ (pc = "Refining" /\ pc' = "Done"
              /\ lns_best_score = schedule_score(base_result)) =>
            returned' = <<base_result>>]_vars

\* the LNS is about to discard a candidate that covers the required set with the
\* same total as the current best and differs from it
C13_Witness ==
    /\ pc = "LnsPass"
    /\ PassDone
    /\ Range(scheduled_trades) = lns_required
    /\ schedule_score(PassResult) = lns_best_score
    /\ PassResult # R

\* C14: when the forward-order pass over two offered trades schedules one of them and
\* the reversed-order pass schedules both, an estimation in which a trial ran the
\* reversed order returns a proposal with both trades scheduled.
C14_ReversedTrialSchedulesBoth ==
    (/\ EstimateDone
     /\ Len(trades) = 2
     /\ NumScheduled(_single_insertion_pass(trades)) = 1
     /\ NumScheduled(_single_insertion_pass(Reverse(trades))) = 2
     /\ \E i \in DOMAIN trial_log : trial_log[i] = _single_insertion_pass(Reverse(trades)))
        => NumScheduled(returned[1]) = 2

\* the positions of the scheduled sequence whose trade went to the vessel in this pass
AssignedEarlier(v) ==
    {i \in DOMAIN scheduled_trades :
        scheduled_trades[i] \in TradesOf(WorkingSchedule(v)) \ TradesOf(real_schedule[v])}
\* where the vessel is before the next trade of the pass
PriorLocation(v) ==
    IF AssignedEarlier(v) = {} THEN vessel_location[v]
    ELSE LET last == CHOOSE i \in AssignedEarlier(v) : \A j \in AssignedEarlier(v) : j <= i
         IN destination_port(scheduled_trades[last])

\* the working schedule of the vessel after the step
NextWorkingSchedule(v) == IF v \in DOMAIN schedules' THEN schedules'[v] ELSE real_schedule'[v]

C17_InfeasibleTradeIsSkipped ==
    [][(InPass /\ pos <= Len(order) /\ pos' # pos /\ FeasibleVessels(order[pos]) = {}) =>
          /\ scheduled_trades' = scheduled_trades
          /\ \A v \in Vessels : NextWorkingSchedule(v) = WorkingSchedule(v)
          /\ vessel_last_port' = vessel_last_port
          /\ costs' = costs
          /\ pc' = pc
          /\ order' = order
          /\ pos' = pos + 1]_vars

\* a finished pass that dropped a trade and scheduled a later trade of its order
C17_Witness ==
    /\ PassDone
    /\ \E i, j \in DOMAIN order :
          /\ i < j
          /\ order[i] \notin Range(scheduled_trades)
          /\ order[j] \in Range(scheduled_trades)

\* the invariant of a proposal for the given input trades: every scheduled trade is in
\* the schedule of exactly one vessel, every cost entry is for a trade that is
\* scheduled and in some vessel's schedule, and the scheduled trades are input trades
ProposalInvariant(prop, input) ==
    /\ \A t \in Range(prop.scheduled_trades) : Cardinality(Carriers(prop.schedules, t)) = 1
    /\ \A t \in DOMAIN prop.costs :
          /\ t \in Range(prop.scheduled_trades)
          /\ Carriers(prop.schedules, t) # {}
    /\ Range(prop.scheduled_trades) \subseteq Range(input)

C19_OneBidPerScheduledTradeAtCost ==
    (company = "CompanyZ6" /\ pc = "Bids") =>
        /\ \A t \in Range(trades) :
              Cardinality({i \in DOMAIN bids : bids[i].trade = t}) =
                  IF t \in Range(returned[1].scheduled_trades) THEN 1 ELSE 0
        /\ \A i \in DOMAIN bids :
              /\ bids[i].trade \in Range(trades)
              /\ bids[i].amount = returned[1].costs[bids[i].trade]

\* bids for two of three offered trades, the third one being unscheduled
C19_Witness ==
    /\ company = "CompanyZ6"
    /\ pc = "Bids"
    /\ Len(trades) = 3
    /\ Len(bids) = 2
    /\ bids[1].amount # bids[2].amount

\* ---------------------------------------------------------------------------
\* C16: no step of propose_schedules, in either company and in either mode,
\* changes a vessel's real schedule (only the apply_schedules step of receive
\* does), and every insertion pass (multi-start trial, base pass, fallback pass,
\* LNS repair pass, HarshCompany start) begins with each vessel's working
\* schedule equal to its unmodified real schedule.
PassStates == {"TrialPass", "BasePass", "FallbackPass", "LnsPass", "HarshPass"}
PassBegins == pc' \in PassStates /\ pc' # pc
ApplyStep == pc \in {"Done", "Failed"} /\ post_auction /\ pc' = "Idle"
C16_ProposeLeavesRealSchedules ==
    [][/\ (real_schedule' # real_schedule) => ApplyStep
       /\ PassBegins => /\ pos' = 1
                        /\ scheduled_trades' = <<>>
                        /\ \A v \in Vessels : NextWorkingSchedule(v) = real_schedule[v]]_vars

\* a later start of HarshCompany has just begun from the real schedules although
\* an earlier start built other schedules
C16_Witness ==
    /\ company = "HarshCompany"
    /\ pc = "HarshPass"
    /\ trial >= 1
    /\ pos = 1
    /\ best_result # <<>>
    /\ \E v \in Vessels : best_result[1].schedules[v] # real_schedule[v]
    /\ \A v \in Vessels : schedules[v] = real_schedule[v]

\* ---------------------------------------------------------------------------
\* C20: HarshCompany.inform returns at most MAX_BIDS_PER_AUCTION bids, each for
\* a distinct offered trade that is in the proposal's scheduled set, has a time
\* window of at least MIN_WINDOW_LENGTH and an origin-to-destination distance
\* of at most MAX_TRADE_DISTANCE; the trades bid on are the highest-scoring
\* ones among the offered trades that pass these filters.
PassingFilters ==
    {t \in Range(trades) :
        /\ t \in Range(returned[1].scheduled_trades)
        /\ window_length(t) >= MIN_WINDOW_LENGTH
        /\ get_network_distance(origin_port(t), destination_port(t)) <= MAX_TRADE_DISTANCE}
BidTrades == {bids[i].trade : i \in DOMAIN bids}
HeuristicScore(t) == _score_trade(t, returned[1].costs[t])
C20_BidsOnBestFewFilteredTrades ==
    (company = "HarshCompany" /\ pc = "HarshBids") =>
        /\ Len(bids) <= MAX_BIDS_PER_AUCTION
        /\ \A i, j \in DOMAIN bids : bids[i].trade = bids[j].trade => i = j
        /\ BidTrades \subseteq PassingFilters
        /\ Len(bids) = Min(Cardinality(PassingFilters), MAX_BIDS_PER_AUCTION)
        /\ \A b \in BidTrades : \A t \in PassingFilters \ BidTrades :
              HeuristicScore(b) >= HeuristicScore(t)

\* four offered trades pass the filters and the three best of them are bid on
C20_Witness ==
    /\ company = "HarshCompany"
    /\ pc = "HarshBids"
    /\ Cardinality(PassingFilters) > MAX_BIDS_PER_AUCTION
    /\ Len(bids) = MAX_BIDS_PER_AUCTION
    /\ \E t \in PassingFilters \ BidTrades : \A b \in BidTrades :
            HeuristicScore(b) > HeuristicScore(t)

WithoutTrade(sched, t) == SelectSeq(sched, LAMBDA e : e[2] # t)
FeasibleCandidates(v, base, t) ==
    {c \in {[pickup |-> i, dropoff |-> j, schedule |-> add_transportation(base, t, i, j)] :
                i \in 1..(Len(base) + 1), j \in 1..(Len(base) + 1)} :
        c.pickup <= c.dropoff /\ verify_schedule(v, c.schedule)}
EnumeratedNotAfter(c, d) ==
    c.pickup < d.pickup \/ (c.pickup = d.pickup /\ c.dropoff <= d.dropoff)
IsChosenCandidate(v, c, cands) ==
    \A d \in cands :
        /\ completion_time(v, c.schedule) <= completion_time(v, d.schedule)
        /\ completion_time(v, c.schedule) = completion_time(v, d.schedule)
              => EnumeratedNotAfter(c, d)
C22_MinimumCompletionInsertion ==
    [][(InPass /\ pos' = pos + 1) =>
          \A v \in Vessels :
             \A cands \in {FeasibleCandidates(v, WorkingSchedule(v), order[pos])} :
                IF cands = {} THEN NextWorkingSchedule(v) = WorkingSchedule(v)
                ELSE \E c \in cands : /\ NextWorkingSchedule(v) = c.schedule
                                       /\ IsChosenCandidate(v, c, cands)]_vars

\* the trade inserted last went into a vessel that had feasible candidates of
\* different completion times and two of the minimum completion time
C22_Witness ==
    /\ company = "CompanyZ6"
    /\ InPass
    /\ pos > 1
    /\ \E v \in DOMAIN schedules :
          /\ order[pos - 1] \in TradesOf(schedules[v])
          /\ \A cands \in {FeasibleCandidates(v, WithoutTrade(schedules[v], order[pos - 1]),
                                                order[pos - 1])} :
                /\ \E c, d \in cands :
                      completion_time(v, c.schedule) < completion_time(v, d.schedule)
                /\ \E c, d \in cands :
                      /\ c # d
                      /\ c.schedule = schedules[v]
                      /\ completion_time(v, c.schedule) = completion_time(v, d.schedule)

\* ---------------------------------------------------------------------------
\* C23: in a pass of CompanyZ6, once a trade is assigned to a vessel, the
\* candidates of every later trade of the pass on that vessel are built from the
\* vessel's updated working schedule, which holds every trade assigned to the
\* vessel so far in the pass, and not from the vessel's real schedule: a new
\* working schedule is the one before it with the two events of the trade
\* added, and it never loses a trade.
PassTradesOf(v) == TradesOf(schedules[v]) \ TradesOf(real_schedule[v])
C23_LaterTradesSeeUpdatedSchedule ==
    [][(InPass /\ pos' = pos + 1) =>
          \A v \in Vessels :
             NextWorkingSchedule(v) # WorkingSchedule(v) =>
                /\ \E i, j \in 1..(Len(WorkingSchedule(v)) + 1) :
                      /\ i <= j
                      /\ NextWorkingSchedule(v) =
                            add_transportation(WorkingSchedule(v), order[pos], i, j)
                /\ TradesOf(NextWorkingSchedule(v)) =
                       TradesOf(WorkingSchedule(v)) \cup {order[pos]}
                /\ TradesOf(real_schedule[v]) \subseteq TradesOf(NextWorkingSchedule(v))]_vars

\* a vessel holds two trades assigned in the running pass
C23_Witness ==
    /\ company = "CompanyZ6"
    /\ InPass
    /\ \E v \in DOMAIN schedules : Cardinality(PassTradesOf(v)) >= 2

\* ---------------------------------------------------------------------------
\* C24: every call of propose_schedules terminates: the estimation path
\* reaches Done after exactly K passes, and the commit path reaches Done or
\* Failed after at most 2 base passes plus at most LNS_ITERATIONS repair passes.
Proposing == pc \in {"Estimating", "TrialPass", "BasePass", "FallbackPass",
                     "Refining", "LnsPass"}
Proposed == pc \in {"Done", "Failed"}
BasePasses == 1 + (IF fallback # <<>> THEN 1 ELSE 0)
C24_ProposeSchedulesTerminates ==
    /\ Proposing ~> Proposed
    /\ [](EstimateDone => trial = K /\ Len(trial_log) = K)
    /\ []((Proposed /\ post_auction) => lns_iter <= LNS_ITERATIONS)
    /\ [][/\ (pc' = "TrialPass" /\ pc # "TrialPass") => trial < K
          /\ (pc = "TrialPass" /\ pc' # "TrialPass") =>
                trial' = trial + 1 /\ Len(trial_log') = Len(trial_log) + 1
          /\ (pc' = "BasePass" /\ pc # "BasePass") => pc = "Idle"
          /\ (pc' = "FallbackPass" /\ pc # "FallbackPass") =>
                pc = "BasePass" /\ fallback = <<>>
          /\ (pc = "FallbackPass" /\ pc' # "FallbackPass") => fallback' # <<>>
          /\ (pc' = "LnsPass" /\ pc # "LnsPass") => lns_iter < LNS_ITERATIONS
          /\ (pc = "LnsPass" /\ pc' # "LnsPass") => lns_iter' = lns_iter + 1]_vars

\* the commit path is done after two base passes and LNS_ITERATIONS repair passes
C24_Witness ==
    /\ CommitDone
    /\ BasePasses = 2
    /\ lns_iter = LNS_ITERATIONS

\* ---------------------------------------------------------------------------
\* C25: in HarshCompany._build_schedule_for_order each scheduled trade is
\* inserted into exactly one vessel's schedule, namely into the candidate with
\* the minimum completion_time() over all vessels and all feasible (pickup,
\* dropoff) pairs, the first in fleet and position order on ties; a trade with
\* no feasible candidate on any vessel is skipped and gets no cost entry.
FleetCandidates(scheds, t) ==
    UNION {{[vessel |-> v, pickup |-> c.pickup, dropoff |-> c.dropoff,
             schedule |-> c.schedule, time |-> completion_time(v, c.schedule)] :
               c \in FeasibleCandidates(v, scheds[v], t)} : v \in Vessels}
FoundNotAfter(c, d) ==
    \/ c.vessel < d.vessel
    \/ (c.vessel = d.vessel /\ EnumeratedNotAfter(c, d))
C25_HarshInsertsGlobalMinimum ==
    [][(pc = "HarshPass" /\ pos' = pos + 1) =>
          \A cands \in {FleetCandidates(schedules, order[pos])} :
             IF cands = {}
             THEN /\ schedules' = schedules
                  /\ scheduled_trades' = scheduled_trades
                  /\ costs' = costs
                  /\ order[pos] \notin DOMAIN costs'
             ELSE /\ \E c \in cands :
                        /\ schedules' = [schedules EXCEPT ![c.vessel] = c.schedule]
                        /\ \A d \in cands :
                              /\ c.time <= d.time
                              /\ c.time = d.time => FoundNotAfter(c, d)
                  /\ Cardinality({v \in Vessels : schedules'[v] # schedules[v]}) = 1
                  /\ scheduled_trades' = Append(scheduled_trades, order[pos])
                  /\ order[pos] \in DOMAIN costs']_vars

\* the trade inserted last went to the second vessel, where it completes
\* strictly sooner than anywhere on the first vessel, which could also take it
C25_Witness ==
    /\ company = "HarshCompany"
    /\ pc = "HarshPass"
    /\ pos > 1
    /\ order[pos - 1] \in TradesOf(schedules[2]) \ TradesOf(schedules[1])
    /\ \A on_first \in {FeasibleCandidates(1, schedules[1], order[pos - 1])} :
          /\ on_first # {}
          /\ \A c \in on_first :
                completion_time(1, c.schedule) > completion_time(2, schedules[2])

\* ---------------------------------------------------------------------------
\* C26: for a non-empty trade list HarshCompany._propose_schedules_internal
\* returns the schedules, scheduled trades and costs of one single start whose
\* score tuple (-number scheduled, total cost, maximum completion time) is
\* lexicographically minimal among the original-order start and the NUM_STARTS
\* shuffled starts, the earliest such start on ties; so the proposal never
\* schedules fewer trades than the original-order start.  For an empty trade
\* list it returns an empty proposal.
LexLess(a, b) ==
    \E i \in 1..3 : a[i] < b[i] /\ \A j \in 1..(i - 1) : a[j] = b[j]
StartScore == <<0 - Len(scheduled_trades), total_cost, max_completion_time>>
C26_HarshReturnsFirstLexMinimalStart ==
    /\ [][(pc = "HarshPass" /\ pc' = "HarshStarts") =>
             IF best_score = <<>> \/ LexLess(StartScore, best_score[1])
             THEN /\ best_score' = <<StartScore>>
                  /\ best_result' = <<ScheduleProposal(schedules, scheduled_trades, costs)>>
             ELSE UNCHANGED <<best_score, best_result>>]_vars
    /\ [][(pc' = "HarshPass" /\ pc # "HarshPass") =>
             IF pc = "Idle" THEN order' = trades' /\ trial' = 0
             ELSE order' \in Shuffles(trades) /\ trial \in 1..NUM_STARTS /\ trial' = trial]_vars
    /\ []((company = "HarshCompany" /\ pc = "HarshDone") =>
             IF trades = <<>> THEN returned = <<NoResult>>
             ELSE /\ trial = NUM_STARTS + 1
                  /\ returned = best_result
                  /\ best_score[1][1] = 0 - Len(returned[1].scheduled_trades)
                  /\ ~LexLess(_build_schedule_for_order(trades).score_tuple, best_score[1])
                  /\ Len(returned[1].scheduled_trades) >=
                        Len(_build_schedule_for_order(trades).scheduled_trades))

\* a shuffled start won: the proposal is not the one of the original order
C26_Witness ==
    /\ company = "HarshCompany"
    /\ pc = "HarshDone"
    /\ trades # <<>>
    /\ LexLess(<<0 - Len(returned[1].scheduled_trades), 0, 0>>,
               <<0 - Len(_build_schedule_for_order(trades).scheduled_trades), 0, 0>>)

\* ---------------------------------------------------------------------------
\* C27: after CompanyZ6.propose_schedules has returned a proposal in estimation
\* mode, _find_vessel_for_trade(t) is, for every trade t of the proposal's
\* scheduled set, a vessel whose schedule in the returned proposal contains t,
\* and None for every trade outside the scheduled set, also after K > 1 trials.
C27_FindVesselMatchesReturnedProposal ==
    (company = "CompanyZ6" /\ EstimateDone) =>
        \A t \in Trades :
            IF t \in Range(returned[1].scheduled_trades)
            THEN _find_vessel_for_trade(t) \in Carriers(returned[1].schedules, t)
            ELSE _find_vessel_for_trade(t) = None

\* ---------------------------------------------------------------------------
\* C28: for an input sequence without repeated trades, the scheduled sequence
\* of _single_insertion_pass holds each input trade at most once, so its
\* length is the number of distinct scheduled trades, and the list the
\* neighbourhood repair samples its removals from has no repeated trade.
C28_ScheduledSequenceHasNoRepeats ==
    /\ (company = "CompanyZ6" /\ InPass /\ Injective(order)) =>
           /\ Injective(scheduled_trades)
           /\ Len(scheduled_trades) = Cardinality(Range(scheduled_trades))
    /\ (company = "CompanyZ6" /\ pc = "Refining" /\ lns_iter = 0) =>
           Injective(current_trades)

\* ---------------------------------------------------------------------------
\* C29: for every trade count n >= 0 and every MAX_SHUFFLES >= 1 the trial
\* count is at least 1, and the estimation path runs at least one trial and
\* returns a ScheduleProposal, one of its trial results, never an absent
\* result; also when no trade can be scheduled or the trade list is empty.
C29_EstimationRunsATrialAndReturns ==
    /\ pc = "Counted" => count_K >= 1
    /\ (pc \in {"Estimating", "TrialPass"}) => K >= 1
    /\ EstimateDone =>
           /\ trial >= 1
           /\ Len(trial_log) = trial
           /\ returned # <<>>
           /\ returned[1] \in Range(trial_log)

\* estimation has returned for a list of trades none of which could be scheduled
C29_Witness ==
    /\ EstimateDone
    /\ trades # <<>>
    /\ returned # <<>>
    /\ returned[1].scheduled_trades = <<>>

====
